---- MODULE Spec2Model ----
(***************************************************************************)
(* SessionPersistence (src/lib/session-persistence.js): the session-scoped *)
(* store of todo lists.                                                    *)
(*                                                                         *)
(* JavaScript objects have identity, and the store's contract is about     *)
(* who holds a reference to what.  Every TodoList and Todo object carries  *)
(* an object identity `oid` (a TodoList's oid stands for the list object   *)
(* together with its todos array); every array of todo lists lives at an   *)
(* address of `heap`.  Two values alias iff they carry the same oid (or    *)
(* the same address).  Titles are strings, modelled as sequences of        *)
(* character codes.                                                        *)
(***************************************************************************)
EXTENDS Integers, Sequences, FiniteSets

VARIABLES
    session,    \* the session object: [todoLists: undefined | reference to an array]
    heap,       \* heap[a]: the array of TodoList objects at address a
    stores,     \* the SessionPersistence objects constructed so far: [_todoLists: address]
    currentId,  \* the counter of the id generator (next-id)
    op,         \* the last call made: [name, todoListId, todoId, title]
    ret         \* the value the last call returned, as held by the caller

vars == <<session, heap, stores, currentId, op, ret>>

----------------------------------------------------------------------------
(* Bounds of the model *)

MaxId == 3          \* Spec: the generator is called while currentId < MaxId
MaxListsId == 4     \* SpecLists: the generator is called while currentId < MaxListsId
MaxStores == 2      \* stores constructed on the session (one per request)

(* Titles the callers pass: "a", "B" *)
Titles == { <<97>>, <<66>> }
(* The title a caller writes into a value it was returned: "x" *)
CallerTitle == <<120>>

----------------------------------------------------------------------------
(* JavaScript values *)

Undefined == [kind |-> "undefined", val |-> 0]
JSBool(b) == [kind |-> "boolean", val |-> b]
Ref(a) == [kind |-> "array", val |-> a]
ListVal(l) == [kind |-> "list", val |-> l]
TodoVal(t) == [kind |-> "todo", val |-> t]
ListsVal(ls) == [kind |-> "lists", val |-> ls]
TodosVal(ts) == [kind |-> "todos", val |-> ts]

NoId == Undefined.val
NoTitle == << >>
Call(name, todoListId, todoId, title) ==
    [name |-> name, todoListId |-> todoListId, todoId |-> todoId, title |-> title]

(* Array.prototype.find / findIndex, given the positions whose element
   satisfies the test: the first of them, 0 when there is none (find's
   undefined, findIndex's -1). *)
FindIndex(matching) ==
    IF matching = {} THEN 0
    ELSE CHOOSE i \in matching : \A j \in matching : i <= j

(* Array.prototype.splice(index, 1) *)
Splice(seq, index) == [i \in 1..(Len(seq)-1) |-> IF i < index THEN seq[i] ELSE seq[i+1]]

----------------------------------------------------------------------------
(* Object identities *)

TodoOids(ts) == { ts[i].oid : i \in 1..Len(ts) }
ListOids(l) == {l.oid} \cup TodoOids(l.todos)
ListsOids(ls) == UNION { ListOids(ls[i]) : i \in 1..Len(ls) }

ValueOids(v) ==
    CASE v.kind = "list" -> ListOids(v.val)
      [] v.kind = "todo" -> {v.val.oid}
      [] v.kind = "lists" -> ListsOids(v.val)
      [] v.kind = "todos" -> TodoOids(v.val)
      [] OTHER -> {}

(* The first identity no live object has. *)
Fresh(used) ==
    CHOOSE o \in 1..(Cardinality(used)+1) : o \notin used /\ \A p \in 1..(o-1) : p \in used

RECURSIVE NFresh(_, _)
NFresh(used, n) ==
    IF n = 0 THEN << >>
    ELSE LET o == Fresh(used) IN <<o>> \o NFresh(used \cup {o}, n-1)

----------------------------------------------------------------------------
(* Collaborators required at lines 1-4 *)

(* seed-data: the fixed dataset a new session starts from: one list "B"
   holding one todo "a", which is done. *)
SeedData ==
    << [oid |-> 1, id |-> 1, title |-> <<66>>,
        todos |-> << [oid |-> 2, id |-> 2, title |-> <<97>>, done |-> TRUE] >>] >>

(* The spec gives every TodoList a unique id and every Todo an id unique in
   its list (3, data model), and makes the id of a created list or todo fresh
   (4.1): the generator never returns an id the seed data holds.  The seed
   ids are the values the generator has returned before the first session. *)
RECURSIVE MaxOf(_)
MaxOf(S) == IF S = {} THEN 0 ELSE LET x == CHOOSE x \in S : TRUE
                                      m == MaxOf(S \ {x})
                                  IN IF x > m THEN x ELSE m
SeedIds == UNION { {SeedData[i].id} \cup { SeedData[i].todos[j].id : j \in 1..Len(SeedData[i].todos) }
                   : i \in 1..Len(SeedData) }
SeedLastId == MaxOf(SeedIds)

(* next-id: a counter; every call returns a number never returned before. *)
nextId(current) == current + 1

(* deep-copy: a structurally equal value none of whose objects is an existing
   object: every object of the copy gets an identity that is not in `used`. *)
CopyTodos(ts, oids) == [i \in 1..Len(ts) |-> [ts[i] EXCEPT !.oid = oids[i]]]

CopyList(l, oids) ==
    [l EXCEPT !.oid = oids[1],
              !.todos = CopyTodos(l.todos, SubSeq(oids, 2, Len(oids)))]

RECURSIVE CopyLists(_, _)
CopyLists(ls, oids) ==
    IF ls = << >> THEN << >>
    ELSE LET n == 1 + Len(ls[1].todos)
         IN <<CopyList(ls[1], SubSeq(oids, 1, n))>>
            \o CopyLists(Tail(ls), SubSeq(oids, n+1, Len(oids)))

deepCopy(v, used) ==
    LET oids == NFresh(used, Cardinality(ValueOids(v)))
    IN CASE v.kind = "list" -> ListVal(CopyList(v.val, oids))
         [] v.kind = "todo" -> TodoVal([v.val EXCEPT !.oid = oids[1]])
         [] v.kind = "lists" -> ListsVal(CopyLists(v.val, oids))
         [] v.kind = "todos" -> TodosVal(CopyTodos(v.val, oids))
         [] OTHER -> v

(* sort: String.prototype.toLowerCase and the comparison of titles *)
LowerChar(c) == IF c >= 65 /\ c <= 90 THEN c + 32 ELSE c
toLowerCase(s) == [i \in 1..Len(s) |-> LowerChar(s[i])]

(* s < t for strings: by code unit, a proper prefix first *)
StrLess(s, t) ==
    \E k \in 1..(Len(t)) :
        /\ \A i \in 1..(k-1) : i <= Len(s) /\ s[i] = t[i]
        /\ \/ k = Len(s) + 1
           \/ k <= Len(s) /\ s[k] < t[k]

(* -1, 0, 1 by lower-cased title *)
compareByTitle(itemA, itemB) ==
    LET titleA == toLowerCase(itemA.title)
        titleB == toLowerCase(itemB.title)
    IN IF StrLess(titleA, titleB) THEN -1
       ELSE IF StrLess(titleB, titleA) THEN 1
       ELSE 0

(* Array.prototype.sort with compareByTitle: a stable sort *)
RECURSIVE InsertSorted(_, _)
InsertSorted(sorted, item) ==
    IF sorted = << >> THEN <<item>>
    ELSE IF compareByTitle(item, Head(sorted)) < 0 THEN <<item>> \o sorted
    ELSE <<Head(sorted)>> \o InsertSorted(Tail(sorted), item)

RECURSIVE SortByTitle(_)
SortByTitle(items) ==
    IF items = << >> THEN << >>
    ELSE InsertSorted(SortByTitle(SubSeq(items, 1, Len(items)-1)), items[Len(items)])

sortTodoLists(undone, done) == SortByTitle(undone) \o SortByTitle(done)
sortTodos(undone, done) == SortByTitle(undone) \o SortByTitle(done)

----------------------------------------------------------------------------
(* The methods of SessionPersistence.  `todoLists` is the array this._todoLists
   refers to; a mutating method yields the array's new contents and its
   return value. *)

Result(lists, r) == [lists |-> lists, ret |-> r]

(* The position in this._todoLists of the list found (the reference the
   method returns), 0 for undefined. *)
_findTodoList(todoLists, todoListId) ==
    FindIndex({ i \in 1..Len(todoLists) : todoLists[i].id = todoListId })

(* <<position of the list, position of the todo in it>>, <<0, 0>> for undefined *)
_findTodo(todoLists, todoListId, todoId) ==
    LET li == _findTodoList(todoLists, todoListId)
    IN IF li = 0 THEN <<0, 0>>
       ELSE LET ti == FindIndex({ j \in 1..Len(todoLists[li].todos) : todoLists[li].todos[j].id = todoId })
            IN IF ti = 0 THEN <<0, 0>> ELSE <<li, ti>>

createTodoList(todoLists, title, current, oid) ==
    [lists |-> Append(todoLists,
                      [oid |-> oid, id |-> nextId(current), title |-> title, todos |-> << >>]),
     ret |-> JSBool(TRUE),
     currentId |-> nextId(current)]

(* Without the test of the length: every() of an empty array is true. *)
isDoneTodoList_every(todoList) ==
    \A i \in 1..Len(todoList.todos) : todoList.todos[i].done

isDoneTodoList(todoList) ==
    Len(todoList.todos) > 0 /\ \A i \in 1..Len(todoList.todos) : todoList.todos[i].done

hasUndoneTodos(todoList) ==
    \E i \in 1..Len(todoList.todos) : ~todoList.todos[i].done

(* The undone group taken with hasUndoneTodos in place of !isDoneTodoList. *)
sortedTodoLists_hasUndone(todoLists, used) ==
    LET copies == deepCopy(ListsVal(todoLists), used).val
        undone == SelectSeq(copies, LAMBDA todoList : hasUndoneTodos(todoList))
        done == SelectSeq(copies, LAMBDA todoList : isDoneTodoList(todoList))
    IN ListsVal(sortTodoLists(undone, done))

sortedTodoLists(todoLists, used) ==
    LET copies == deepCopy(ListsVal(todoLists), used).val
        undone == SelectSeq(copies, LAMBDA todoList : ~isDoneTodoList(todoList))
        done == SelectSeq(copies, LAMBDA todoList : isDoneTodoList(todoList))
    IN ListsVal(sortTodoLists(undone, done))

sortedTodos(todoList, used) ==
    LET undone == SelectSeq(todoList.todos, LAMBDA todo : ~todo.done)
        done == SelectSeq(todoList.todos, LAMBDA todo : todo.done)
    IN deepCopy(TodosVal(sortTodos(undone, done)), used)

(* Without the deepCopy: the reference _findTodoList found is returned. *)
loadTodoList_reference(todoLists, todoListId, used) ==
    LET li == _findTodoList(todoLists, todoListId)
    IN IF li = 0 THEN Undefined ELSE ListVal(todoLists[li])

loadTodoList(todoLists, todoListId, used) ==
    LET li == _findTodoList(todoLists, todoListId)
    IN deepCopy(IF li = 0 THEN Undefined ELSE ListVal(todoLists[li]), used)

loadTodo(todoLists, todoListId, todoId, used) ==
    LET at == _findTodo(todoLists, todoListId, todoId)
    IN deepCopy(IF at = <<0, 0>> THEN Undefined ELSE TodoVal(todoLists[at[1]].todos[at[2]]),
                used)

(* todo.done = true in place of todo.done = !todo.done *)
toggleDoneTodo_setsDone(todoLists, todoListId, todoId) ==
    LET at == _findTodo(todoLists, todoListId, todoId)
    IN IF at = <<0, 0>> THEN Result(todoLists, JSBool(FALSE))
       ELSE Result([todoLists EXCEPT ![at[1]].todos[at[2]].done = TRUE], JSBool(TRUE))

toggleDoneTodo(todoLists, todoListId, todoId) ==
    LET at == _findTodo(todoLists, todoListId, todoId)
    IN IF at = <<0, 0>> THEN Result(todoLists, JSBool(FALSE))
       ELSE Result([todoLists EXCEPT ![at[1]].todos[at[2]].done = ~@], JSBool(TRUE))

deleteTodo(todoLists, todoListId, todoId) ==
    LET li == _findTodoList(todoLists, todoListId)
    IN IF li = 0 THEN Result(todoLists, JSBool(FALSE))
       ELSE LET todoIndex == FindIndex({ j \in 1..Len(todoLists[li].todos) : todoLists[li].todos[j].id = todoId })
            IN IF todoIndex = 0 THEN Result(todoLists, JSBool(FALSE))
               ELSE Result([todoLists EXCEPT ![li].todos = Splice(@, todoIndex)],
                           JSBool(TRUE))

(* The list found overwritten by the last one, and the last one popped. *)
deleteTodoList_swapPop(todoLists, todoListId) ==
    LET todoListIndex == FindIndex({ i \in 1..Len(todoLists) : todoLists[i].id = todoListId })
        last == Len(todoLists)
    IN IF todoListIndex = 0 THEN Result(todoLists, JSBool(FALSE))
       ELSE Result(SubSeq([todoLists EXCEPT ![todoListIndex] = todoLists[last]], 1, last - 1),
                   JSBool(TRUE))

(* splice(index) without the count: removes every list from index on. *)
deleteTodoList_spliceToEnd(todoLists, todoListId) ==
    LET todoListIndex == FindIndex({ i \in 1..Len(todoLists) : todoLists[i].id = todoListId })
    IN IF todoListIndex = 0 THEN Result(todoLists, JSBool(FALSE))
       ELSE Result(SubSeq(todoLists, 1, todoListIndex - 1), JSBool(TRUE))

(* Without the test for -1: splice(-1, 1) removes the last element. *)
deleteTodoList_unchecked(todoLists, todoListId) ==
    LET todoListIndex == FindIndex({ i \in 1..Len(todoLists) : todoLists[i].id = todoListId })
    IN IF todoListIndex = 0
       THEN Result(SubSeq(todoLists, 1, Len(todoLists) - 1), JSBool(TRUE))
       ELSE Result(Splice(todoLists, todoListIndex), JSBool(TRUE))

deleteTodoList(todoLists, todoListId) ==
    LET todoListIndex == FindIndex({ i \in 1..Len(todoLists) : todoLists[i].id = todoListId })
    IN IF todoListIndex = 0 THEN Result(todoLists, JSBool(FALSE))
       ELSE Result(Splice(todoLists, todoListIndex), JSBool(TRUE))

markAllDone(todoLists, todoListId) ==
    LET li == _findTodoList(todoLists, todoListId)
    IN IF li = 0 THEN Result(todoLists, JSBool(FALSE))
       ELSE Result([todoLists EXCEPT ![li].todos =
                        [i \in 1..Len(@) |-> [@[i] EXCEPT !.done = TRUE]]],
                   JSBool(TRUE))

(* The id taken from the length of the array, not from the generator's value. *)
addNewTodo_lengthId(todoLists, todoListId, title, current, oid) ==
    LET li == _findTodoList(todoLists, todoListId)
    IN IF li = 0
       THEN [lists |-> todoLists, ret |-> JSBool(FALSE), currentId |-> current]
       ELSE [lists |-> [todoLists EXCEPT ![li].todos =
                           Append(@, [oid |-> oid, id |-> Len(@) + 1,
                                      title |-> title, done |-> FALSE])],
             ret |-> JSBool(TRUE),
             currentId |-> nextId(current)]

(* unshift in place of push *)
addNewTodo_unshift(todoLists, todoListId, title, current, oid) ==
    LET li == _findTodoList(todoLists, todoListId)
    IN IF li = 0
       THEN [lists |-> todoLists, ret |-> JSBool(FALSE), currentId |-> current]
       ELSE [lists |-> [todoLists EXCEPT ![li].todos =
                           <<[oid |-> oid, id |-> nextId(current),
                              title |-> title, done |-> FALSE]>> \o @],
             ret |-> JSBool(TRUE),
             currentId |-> nextId(current)]

addNewTodo(todoLists, todoListId, title, current, oid) ==
    LET li == _findTodoList(todoLists, todoListId)
    IN IF li = 0
       THEN [lists |-> todoLists, ret |-> JSBool(FALSE), currentId |-> current]
       ELSE [lists |-> [todoLists EXCEPT ![li].todos =
                           Append(@, [oid |-> oid, id |-> nextId(current),
                                      title |-> title, done |-> FALSE])],
             ret |-> JSBool(TRUE),
             currentId |-> nextId(current)]

renameTodoList(todoLists, todoListId, newTitle) ==
    LET li == _findTodoList(todoLists, todoListId)
    IN IF li = 0 THEN Result(todoLists, JSBool(FALSE))
       ELSE Result([todoLists EXCEPT ![li].title = newTitle], JSBool(TRUE))

(* every in place of some *)
isUniqueList_every(todoLists, title) ==
    ~ \A i \in 1..Len(todoLists) : todoLists[i].title = title

isUniqueList(todoLists, title) ==
    ~ \E i \in 1..Len(todoLists) : todoLists[i].title = title

isUniqueConstraintViolation(error) == FALSE

----------------------------------------------------------------------------
(* The constructor (lines 11-14) *)

(* The operand of ||: undefined is falsy, every object (an empty array too) is truthy. *)
Truthy(v) == v.kind # "undefined"

(* Every identity in use: the seed module's objects and the objects of every array. *)
UsedOids(hp) == ListsOids(SeedData) \cup UNION { ListsOids(hp[a]) : a \in 1..Len(hp) }

(* An empty collection taken for a missing one. *)
constructor_reseedsEmpty(sess, hp) ==
    IF Truthy(sess.todoLists) /\ hp[sess.todoLists.val] # << >>
    THEN [this |-> [_todoLists |-> sess.todoLists.val],
          session |-> [sess EXCEPT !.todoLists = sess.todoLists],
          heap |-> hp]
    ELSE LET seeded == Append(hp, deepCopy(ListsVal(SeedData), UsedOids(hp)).val)
         IN [this |-> [_todoLists |-> Len(seeded)],
             session |-> [sess EXCEPT !.todoLists = Ref(Len(seeded))],
             heap |-> seeded]

constructor(sess, hp) ==
    IF Truthy(sess.todoLists)
    THEN [this |-> [_todoLists |-> sess.todoLists.val],
          session |-> [sess EXCEPT !.todoLists = sess.todoLists],
          heap |-> hp]
    ELSE LET seeded == Append(hp, deepCopy(ListsVal(SeedData), UsedOids(hp)).val)
         IN [this |-> [_todoLists |-> Len(seeded)],
             session |-> [sess EXCEPT !.todoLists = Ref(Len(seeded))],
             heap |-> seeded]

----------------------------------------------------------------------------
(* The state machine *)

Init ==
    /\ session = [todoLists |-> Undefined]
    /\ heap = << >>
    /\ stores = << >>
    /\ currentId = SeedLastId
    /\ op = Call("none", NoId, NoId, NoTitle)
    /\ ret = Undefined

Ids == 1..MaxId

(* The array a store works on. *)
Lists(s) == heap[stores[s]._todoLists]

(* A store has no state but its _todoLists field: two stores holding the same
   reference behave alike, and a call is made on one store of each kind. *)
Stores == { s \in 1..Len(stores) : \A r \in 1..(s-1) : stores[r] # stores[s] }

Construct ==
    /\ Len(stores) < MaxStores
    /\ LET c == constructor(session, heap)
       IN /\ stores' = Append(stores, c.this)
          /\ session' = c.session
          /\ heap' = c.heap
    /\ op' = Call("constructor", NoId, NoId, NoTitle)
    /\ ret' = Undefined
    /\ UNCHANGED currentId

(* A mutating method called on store s with result r. *)
Mutated(s, r) ==
    /\ heap' = [heap EXCEPT ![stores[s]._todoLists] = r.lists]
    /\ ret' = r.ret
    /\ UNCHANGED <<session, stores>>

(* A method that only reads, returning v. *)
Returned(v) ==
    /\ ret' = v
    /\ UNCHANGED <<session, heap, stores, currentId>>

CreateTodoList(s, title) ==
    /\ LET r == createTodoList(Lists(s), title, currentId, Fresh(UsedOids(heap)))
       IN Mutated(s, r) /\ currentId' = r.currentId
    /\ op' = Call("createTodoList", NoId, NoId, title)

AddNewTodo(s, todoListId, title) ==
    /\ LET r == addNewTodo(Lists(s), todoListId, title, currentId, Fresh(UsedOids(heap)))
       IN Mutated(s, r) /\ currentId' = r.currentId
    /\ op' = Call("addNewTodo", todoListId, NoId, title)

ToggleDoneTodo(s, todoListId, todoId) ==
    /\ Mutated(s, toggleDoneTodo(Lists(s), todoListId, todoId))
    /\ op' = Call("toggleDoneTodo", todoListId, todoId, NoTitle)
    /\ UNCHANGED currentId

DeleteTodo(s, todoListId, todoId) ==
    /\ Mutated(s, deleteTodo(Lists(s), todoListId, todoId))
    /\ op' = Call("deleteTodo", todoListId, todoId, NoTitle)
    /\ UNCHANGED currentId

DeleteTodoList(s, todoListId) ==
    /\ Mutated(s, deleteTodoList(Lists(s), todoListId))
    /\ op' = Call("deleteTodoList", todoListId, NoId, NoTitle)
    /\ UNCHANGED currentId

MarkAllDone(s, todoListId) ==
    /\ Mutated(s, markAllDone(Lists(s), todoListId))
    /\ op' = Call("markAllDone", todoListId, NoId, NoTitle)
    /\ UNCHANGED currentId

RenameTodoList(s, todoListId, newTitle) ==
    /\ Mutated(s, renameTodoList(Lists(s), todoListId, newTitle))
    /\ op' = Call("renameTodoList", todoListId, NoId, newTitle)
    /\ UNCHANGED currentId

SortedTodoLists(s) ==
    /\ Returned(sortedTodoLists(Lists(s), UsedOids(heap)))
    /\ op' = Call("sortedTodoLists", NoId, NoId, NoTitle)

LoadTodoList(s, todoListId) ==
    /\ Returned(loadTodoList(Lists(s), todoListId, UsedOids(heap)))
    /\ op' = Call("loadTodoList", todoListId, NoId, NoTitle)

LoadTodo(s, todoListId, todoId) ==
    /\ Returned(loadTodo(Lists(s), todoListId, todoId, UsedOids(heap)))
    /\ op' = Call("loadTodo", todoListId, todoId, NoTitle)

IsUniqueList(s, title) ==
    /\ Returned(JSBool(isUniqueList(Lists(s), title)))
    /\ op' = Call("isUniqueList", NoId, NoId, title)

IsUniqueConstraintViolation(s) ==
    /\ Returned(JSBool(isUniqueConstraintViolation(ret)))
    /\ op' = Call("isUniqueConstraintViolation", NoId, NoId, NoTitle)

(* The TodoList objects the caller holds: the ones the last call returned. *)
HeldLists ==
    CASE ret.kind = "list" -> {ret.val}
      [] ret.kind = "lists" -> { ret.val[i] : i \in 1..Len(ret.val) }
      [] OTHER -> {}

(* sortedTodos, isDoneTodoList and hasUndoneTodos take a TodoList object, which
   the caller got from loadTodoList or sortedTodoLists. *)
SortedTodos(s, todoList) ==
    /\ Returned(sortedTodos(todoList, UsedOids(heap) \cup ValueOids(ret)))
    /\ op' = Call("sortedTodos", todoList.id, NoId, NoTitle)

IsDoneTodoList(s, todoList) ==
    /\ Returned(JSBool(isDoneTodoList(todoList)))
    /\ op' = Call("isDoneTodoList", todoList.id, NoId, NoTitle)

HasUndoneTodos(s, todoList) ==
    /\ Returned(JSBool(hasUndoneTodos(todoList)))
    /\ op' = Call("hasUndoneTodos", todoList.id, NoId, NoTitle)

----------------------------------------------------------------------------
(* The caller writes into a value a read operation returned to it.  An
   assignment to an object is seen through every reference to that object:
   it changes the object of identity oid wherever it is reachable from.
   The writes: a title is assigned, a done flag is negated, the last todo is
   popped off a list's todos.  One write is explored per returned value. *)

Kinds == {"title", "done", "pop"}

WriteTodo(todo, oid, kind) ==
    IF todo.oid # oid THEN todo
    ELSE CASE kind = "title" -> [todo EXCEPT !.title = CallerTitle]
           [] kind = "done" -> [todo EXCEPT !.done = ~@]
           [] OTHER -> todo

WriteTodos(todos, oid, kind) == [i \in 1..Len(todos) |-> WriteTodo(todos[i], oid, kind)]

WriteList(todoList, oid, kind) ==
    LET written ==
            IF todoList.oid # oid THEN todoList
            ELSE CASE kind = "title" -> [todoList EXCEPT !.title = CallerTitle]
                   [] kind = "pop" -> [todoList EXCEPT !.todos = SubSeq(@, 1, Len(@) - 1)]
                   [] OTHER -> todoList
    IN [written EXCEPT !.todos = WriteTodos(@, oid, kind)]

WriteLists(lists, oid, kind) == [i \in 1..Len(lists) |-> WriteList(lists[i], oid, kind)]

WriteValue(v, oid, kind) ==
    CASE v.kind = "list" -> ListVal(WriteList(v.val, oid, kind))
      [] v.kind = "todo" -> TodoVal(WriteTodo(v.val, oid, kind))
      [] v.kind = "lists" -> ListsVal(WriteLists(v.val, oid, kind))
      [] v.kind = "todos" -> TodosVal(WriteTodos(v.val, oid, kind))
      [] OTHER -> v

CallerWrites(oid, kind) ==
    /\ op.name # "callerWrites"
    /\ oid \in ValueOids(ret)
    /\ WriteValue(ret, oid, kind) # ret
    /\ ret' = WriteValue(ret, oid, kind)
    /\ heap' = [a \in 1..Len(heap) |-> WriteLists(heap[a], oid, kind)]
    /\ op' = Call("callerWrites", NoId, NoId, NoTitle)
    /\ UNCHANGED <<session, stores, currentId>>

----------------------------------------------------------------------------

(* The model's bound on the generator: a call that takes an id from it is
   explored while the counter is below the limit; addNewTodo on a list that
   is not stored takes none. *)
CallsNextId(s, todoListId) == _findTodoList(Lists(s), todoListId) # 0

Next ==
    \/ Construct
    \/ \E s \in Stores :
        \/ \E title \in Titles : currentId < MaxId /\ CreateTodoList(s, title)
        \/ \E todoListId \in Ids, title \in Titles :
                /\ CallsNextId(s, todoListId) => currentId < MaxId
                /\ AddNewTodo(s, todoListId, title)
        \/ \E todoListId \in Ids, todoId \in Ids : ToggleDoneTodo(s, todoListId, todoId)
        \/ \E todoListId \in Ids, todoId \in Ids : DeleteTodo(s, todoListId, todoId)
        \/ \E todoListId \in Ids : DeleteTodoList(s, todoListId)
        \/ \E todoListId \in Ids : MarkAllDone(s, todoListId)
        \/ \E todoListId \in Ids, newTitle \in Titles : RenameTodoList(s, todoListId, newTitle)
        \/ SortedTodoLists(s)
        \/ \E todoListId \in Ids : LoadTodoList(s, todoListId)
        \/ \E todoListId \in Ids, todoId \in Ids : LoadTodo(s, todoListId, todoId)
        \/ \E title \in Titles : IsUniqueList(s, title)
        \/ IsUniqueConstraintViolation(s)
        \/ \E todoList \in HeldLists : SortedTodos(s, todoList)
        \/ \E todoList \in HeldLists : IsDoneTodoList(s, todoList)
        \/ \E todoList \in HeldLists : HasUndoneTodos(s, todoList)
    \/ \E oid \in ValueOids(ret), kind \in Kinds : CallerWrites(oid, kind)

Spec == Init /\ [][Next]_vars

----------------------------------------------------------------------------
(* The growth of the collection: the seven mutating methods and loadTodoList
   on the session's array, with one more id from the generator than Spec.
   The methods compare an id with === and nothing else, so the ids that match
   nothing behave alike: the callers pass every id that is stored and the
   first id that is not.  One store is constructed: every store refers to the
   session's array. *)

ListIdsOf(lists) == { lists[i].id : i \in 1..Len(lists) }
TodoIdsOf(lists) ==
    UNION { { lists[i].todos[j].id : j \in 1..Len(lists[i].todos) } : i \in 1..Len(lists) }
ListIdArgs(s) == ListIdsOf(Lists(s)) \cup {Fresh(ListIdsOf(Lists(s)))}
TodoIdArgs(s) == TodoIdsOf(Lists(s)) \cup {Fresh(TodoIdsOf(Lists(s)))}

NextLists ==
    \/ stores = << >> /\ Construct
    \/ \E s \in Stores :
        \/ \E title \in Titles : currentId < MaxListsId /\ CreateTodoList(s, title)
        \/ \E todoListId \in ListIdArgs(s), title \in Titles :
                /\ CallsNextId(s, todoListId) => currentId < MaxListsId
                /\ AddNewTodo(s, todoListId, title)
        \/ \E todoListId \in ListIdArgs(s), todoId \in TodoIdArgs(s) :
                ToggleDoneTodo(s, todoListId, todoId)
        \/ \E todoListId \in ListIdArgs(s), todoId \in TodoIdArgs(s) :
                DeleteTodo(s, todoListId, todoId)
        \/ \E todoListId \in ListIdArgs(s) : DeleteTodoList(s, todoListId)
        \/ \E todoListId \in ListIdArgs(s) : MarkAllDone(s, todoListId)
        \/ \E todoListId \in ListIdArgs(s), newTitle \in Titles :
                RenameTodoList(s, todoListId, newTitle)
        \/ \E todoListId \in ListIdArgs(s) : LoadTodoList(s, todoListId)

SpecLists == Init /\ [][NextLists]_vars

----------------------------------------------------------------------------
(* Properties of the store *)

(* The session's collection of todo lists. *)
Collection == IF session.todoLists.kind = "array" THEN heap[session.todoLists.val] ELSE << >>

IsTrue(v) == v.kind = "boolean" /\ v.val
IsFalse(v) == v.kind = "boolean" /\ ~v.val

HasList(lists, id) == \E i \in 1..Len(lists) : lists[i].id = id
HasTodo(lists, id, todoId) ==
    \E i \in 1..Len(lists) :
        lists[i].id = id /\ \E j \in 1..Len(lists[i].todos) : lists[i].todos[j].id = todoId

(* A list or todo without its object identity: what the object holds. *)
TodoFields(todo) == [id |-> todo.id, title |-> todo.title, done |-> todo.done]
ListFields(todoList) ==
    [id |-> todoList.id, title |-> todoList.title,
     todos |-> [j \in 1..Len(todoList.todos) |-> TodoFields(todoList.todos[j])]]

ListIdMutators ==
    {"toggleDoneTodo", "deleteTodo", "deleteTodoList", "markAllDone", "addNewTodo",
     "renameTodoList"}
Mutators == ListIdMutators \cup {"createTodoList"}

(* C1: a mutating operation called with a list id that no stored list has
   returns false and leaves the whole collection (and every array) as it was. *)
C1_MissingListIsRefused ==
    [][ (op'.name \in ListIdMutators /\ ~HasList(Collection, op'.todoListId))
        => (IsFalse(ret') /\ heap' = heap /\ session' = session) ]_vars

C1_Witness ==
    /\ op.name \in ListIdMutators
    /\ Len(Collection) > 0
    /\ ~HasList(Collection, op.todoListId)
    /\ IsFalse(ret)

(* C2: what the read operations return shares no object with the stored
   collection, and nothing but the mutating operations (and the seeding of a
   new session) changes the stored collection: not a read, and not a caller
   writing into a value it was returned. *)
C2_ReadsReturnCopies ==
    [][ /\ ValueOids(ret') \cap UsedOids(heap') = {}
        /\ (op'.name \notin (Mutators \cup {"constructor"})) => heap' = heap ]_vars

C2_Witness ==
    /\ op.name = "callerWrites"
    /\ ret.kind = "list"
    /\ \E i \in 1..Len(Collection) :
        /\ Collection[i].id = ret.val.id
        /\ ListFields(Collection[i]) # ListFields(ret.val)

(* C3: after deleteTodoList(id) returned true, loadTodoList(id) returns
   undefined, the other lists are as they were and in their order; and a list
   id that is not found stays not found through every step that does not
   create a list with that id. *)
NotFound(lists, id) == loadTodoList(lists, id, {}).kind = "undefined"

C3_DeletedListStaysGone ==
    [][ /\ (op'.name = "deleteTodoList" /\ IsTrue(ret'))
           => /\ NotFound(Collection', op'.todoListId)
              /\ Len(Collection') = Len(Collection) - 1
              /\ Collection' = SelectSeq(Collection, LAMBDA l : l.id # op'.todoListId)
        /\ (session.todoLists.kind = "array" /\ Collection' # Collection)
           => \A id \in 1..MaxListsId :
                (/\ NotFound(Collection, id)
                 /\ ~(op'.name = "createTodoList" /\ Collection'[Len(Collection')].id = id))
                => NotFound(Collection', id) ]_vars

(* a list was deleted from between two others, which are both still stored,
   the first of them holding a todo (ids grow along the array) *)
C3_Witness ==
    /\ op.name = "deleteTodoList"
    /\ IsTrue(ret)
    /\ Len(Collection) >= 2
    /\ Collection[1].id < op.todoListId
    /\ op.todoListId < Collection[2].id
    /\ Len(Collection[1].todos) >= 1
    /\ NotFound(Collection, op.todoListId)

(* C4: createTodoList(T) returns true and isUniqueList(T) is then false; a
   title that is not unique stays so until a list carrying it is deleted or
   renamed. *)
AllTitles == Titles \cup {CallerTitle} \cup { SeedData[i].title : i \in 1..Len(SeedData) }

C4_CreatedTitleIsNotUnique ==
    [][ /\ op'.name = "createTodoList"
           => IsTrue(ret') /\ ~isUniqueList(Collection', op'.title)
        /\ \A T \in AllTitles :
            (/\ Collection' # Collection
             /\ ~isUniqueList(Collection, T)
             /\ ~(/\ op'.name \in {"deleteTodoList", "renameTodoList"}
                  /\ \E i \in 1..Len(Collection) :
                        Collection[i].id = op'.todoListId /\ Collection[i].title = T))
            => ~isUniqueList(Collection', T) ]_vars

C4_Witness ==
    /\ op.name = "createTodoList"
    /\ IsTrue(ret)
    /\ ~isUniqueList(Collection, op.title)
    /\ Len(Collection) > 1

(* C5: sortedTodoLists returns every stored list once, the lists that are not
   done before the done ones, each group in non-decreasing order of the
   lower-cased titles, and leaves the stored collection as it was. *)
Injections(n) == { f \in [1..n -> 1..n] : \A i, j \in 1..n : f[i] = f[j] => i = j }

SameLists(returned, stored) ==
    /\ Len(returned) = Len(stored)
    /\ \E f \in Injections(Len(stored)) :
        \A i \in 1..Len(stored) : ListFields(returned[i]) = ListFields(stored[f[i]])

TitleLessOrEqual(x, y) == ~StrLess(toLowerCase(y.title), toLowerCase(x.title))

IsDone(todoList) ==
    Len(todoList.todos) >= 1 /\ \A j \in 1..Len(todoList.todos) : todoList.todos[j].done

C5_SortedTodoLists ==
    [][ op'.name = "sortedTodoLists"
        => /\ ret'.kind = "lists"
           /\ SameLists(ret'.val, Collection)
           /\ \A i, j \in 1..Len(ret'.val) :
                i < j => /\ ~(IsDone(ret'.val[i]) /\ ~IsDone(ret'.val[j]))
                         /\ (IsDone(ret'.val[i]) = IsDone(ret'.val[j]))
                                => TitleLessOrEqual(ret'.val[i], ret'.val[j])
           /\ heap' = heap ]_vars

(* the stored order is done first, and the title order is not the code unit order *)
C5_Witness ==
    /\ op.name = "sortedTodoLists"
    /\ Len(Collection) >= 2
    /\ IsDone(Collection[1])
    /\ ~IsDone(ret.val[1])
    /\ \E i \in 1..Len(Collection) : Len(Collection[i].todos) = 0

(* C6: toggleDoneTodo on an existing todo of an existing list returns true and
   flips the done flag of that todo and nothing else; a second call with the
   same arguments returns true and restores the collection. *)
C6_ToggleIsInvolutive ==
    [][ (op'.name = "toggleDoneTodo" /\ HasTodo(Collection, op'.todoListId, op'.todoId))
        => /\ IsTrue(ret')
           /\ \E i \in 1..Len(Collection) : \E j \in 1..Len(Collection[i].todos) :
                /\ Collection[i].id = op'.todoListId
                /\ Collection[i].todos[j].id = op'.todoId
                /\ Collection' = [Collection EXCEPT ![i].todos[j].done = ~@]
           /\ LET again == toggleDoneTodo(Collection', op'.todoListId, op'.todoId)
              IN IsTrue(again.ret) /\ again.lists = Collection ]_vars

C6_Witness ==
    /\ op.name = "toggleDoneTodo"
    /\ IsTrue(ret)
    /\ HasTodo(Collection, op.todoListId, op.todoId)
    /\ \E i \in 1..Len(Collection) : Len(Collection[i].todos) >= 2

(* C7: isDoneTodoList is true exactly of the lists that have a todo and have
   every todo done; markAllDone on a list without todos returns true and the
   list is still not done, on a list with todos the list is done. *)
ListOf(lists, id) == lists[CHOOSE i \in 1..Len(lists) : lists[i].id = id]

C7_DoneNeedsATodo ==
    [][ /\ op'.name = "isDoneTodoList"
           => \A L \in HeldLists : L.id = op'.todoListId => (ret'.val <=> IsDone(L))
        /\ \A L \in HeldLists : isDoneTodoList(L) <=> IsDone(L)
        /\ (op'.name = "markAllDone" /\ HasList(Collection, op'.todoListId))
           => /\ IsTrue(ret')
              /\ isDoneTodoList(ListOf(Collection', op'.todoListId))
                    <=> Len(ListOf(Collection, op'.todoListId).todos) > 0 ]_vars

C7_Witness ==
    /\ op.name = "markAllDone"
    /\ IsTrue(ret)
    /\ HasList(Collection, op.todoListId)
    /\ Len(ListOf(Collection, op.todoListId).todos) = 0

(* C8: addNewTodo on an existing list returns true and appends one todo with
   the title given and done = false; the list's earlier todos, its id and
   title, and every other list are as they were. *)
C8_AddNewTodoAppends ==
    [][ (op'.name = "addNewTodo" /\ HasList(Collection, op'.todoListId))
        => /\ IsTrue(ret')
           /\ Len(Collection') = Len(Collection)
           /\ \E i \in 1..Len(Collection) :
                LET before == Collection[i]
                    after == Collection'[i]
                    n == Len(before.todos)
                IN /\ before.id = op'.todoListId
                   /\ Len(after.todos) = n + 1
                   /\ SubSeq(after.todos, 1, n) = before.todos
                   /\ after.todos[n+1].title = op'.title
                   /\ after.todos[n+1].done = FALSE
                   /\ after.id = before.id /\ after.title = before.title
                   /\ \A k \in 1..Len(Collection) : k # i => Collection'[k] = Collection[k]
        ]_vars

(* the todo was added to the second of two lists, the first one holding a todo *)
C8_Witness ==
    /\ op.name = "addNewTodo"
    /\ IsTrue(ret)
    /\ Len(Collection) >= 2
    /\ Collection[2].id = op.todoListId
    /\ Len(Collection[2].todos) >= 1
    /\ Len(Collection[1].todos) >= 1

(* C9: the constructor seeds the collection exactly when the session has no
   todoLists field; on a session that has the field, an empty collection
   included, it takes the session's array as it is; every store works on the
   array the session refers to. *)
C9_SeededOnlyWithoutField ==
    [][ /\ op'.name = "constructor"
           => IF session.todoLists.kind = "undefined"
              THEN /\ session'.todoLists.kind = "array"
                   /\ Len(heap') = Len(heap) + 1
                   /\ SameLists(Collection', SeedData)
                   /\ ListsOids(Collection') \cap ListsOids(SeedData) = {}
              ELSE session' = session /\ heap' = heap
        /\ session'.todoLists.kind = "array"
        /\ \A s \in 1..Len(stores') : stores'[s]._todoLists = session'.todoLists.val ]_vars

C9_Witness ==
    /\ op.name = "constructor"
    /\ Len(stores) >= 2
    /\ Collection = << >>

(* C10: no two stored lists have the same id, and no two todos of a list have
   the same id. *)
C10_IdsAreUnique ==
    /\ \A i, j \in 1..Len(Collection) : Collection[i].id = Collection[j].id => i = j
    /\ \A i \in 1..Len(Collection) :
        \A j, k \in 1..Len(Collection[i].todos) :
            Collection[i].todos[j].id = Collection[i].todos[k].id => j = k

(* two ids of the generator are stored together: a created list holding an
   added todo, next to the seed list and its todo *)
C10_Witness ==
    /\ Len(Collection) >= 2
    /\ Collection[1].id <= SeedLastId
    /\ Len(Collection[1].todos) >= 1
    /\ Collection[2].id > SeedLastId
    /\ Len(Collection[2].todos) >= 1
    /\ Collection[2].todos[1].id > SeedLastId

====
